---- MODULE Spec2Model ----
(***************************************************************************)
(* Shellfish Environmental Monitor (src/src/App.tsx): the reading          *)
(* generator (generateSeeded, randomWalk, tick), the per-site series       *)
(* buffer kept in React state (the seeding effect and the setInterval      *)
(* callback of the streaming effect), the THRESHOLDS table with its        *)
(* onBlur editors, and the alert classifier (classifyAlert, the alerts     *)
(* useMemo).                                                               *)
(*                                                                         *)
(* Numbers.  Every parameter value and threshold is kept in thousandths    *)
(* of its unit (temp 16.0 is 16000, methyl 0.55 is 550); timestamps are    *)
(* milliseconds, as Date.now() gives them.                                 *)
(*                                                                         *)
(* Randomness.  Math.random() is a pseudo-random generator: a hidden state *)
(* seeded when the page starts, advanced by every call.  The model keeps   *)
(* that state in rng, seeds it nondeterministically in Init, and lets the  *)
(* generator cycle through RngPeriod states; the call that finds it at     *)
(* state s returns (s mod RandDen) / RandDen, in [0, 1).                   *)
(***************************************************************************)
EXTENDS Integers, Sequences, FiniteSets, TLC

VARIABLES
    now,         \* Date.now(): the wall clock, in ms
    rng,         \* hidden state of Math.random()
    mounted,     \* FALSE after the first render, TRUE once the mount effects ran
    series,      \* useState: site id -> sequence of readings
    activeSite,  \* useState: id of the selected site
    streaming,   \* useState: the streaming flag
    timerRef,    \* useRef: timerRef.current, 0 for null
    timers,      \* the window's active interval timers: id -> next due time
    nextId,      \* the id the next window.setInterval call returns
    THRESHOLDS,  \* the module-level mutable thresholds table
    alerts,      \* the alerts useMemo: the list as last computed and shown
    probe,       \* input of a function under check (function specifications)
    out          \* its result

vars == <<now, rng, mounted, series, activeSite, streaming, timerRef, timers,
          nextId, THRESHOLDS, alerts, probe, out>>

----------------------------------------------------------------------------
(* Bounds of the model *)

RandDen == 3          \* Math.random() returns one of 0/RandDen .. (RandDen-1)/RandDen
RngPeriod == 7        \* number of states of the Math.random() generator
StartTime == 10800000 \* Date.now() when the page is opened
Quantum == 2500       \* the clock advances in steps of Quantum ms
MaxElapsed == 10000   \* Spec: ms of run time explored after the page opened
LongElapsed == 1040000 \* LongSpec: ms of run time explored
MaxTimers == 2        \* setInterval calls explored
MaxEditKeys == 1      \* parameters (the first of keys) whose thresholds are edited

(* Program constants *)

MAX_WINDOW == 240     \* arr.slice(-240)
HISTORY_MS == 10800000 \* 3 * 3600_000
STEP_MS == 300000     \* 300_000
INTERVAL_MS == 5000   \* setInterval(..., 5000)

----------------------------------------------------------------------------
(* Helpers *)

Min2(a, b) == IF a < b THEN a ELSE b
Max2(a, b) == IF a > b THEN a ELSE b

\* arr.slice(-n): the last n elements, all of them when there are fewer
SliceLast(arr, n) ==
    IF Len(arr) <= n THEN arr ELSE SubSeq(arr, Len(arr) - n + 1, Len(arr))

\* obj[k] = v on a plain object: adds the key when it is absent
Put(m, k, v) == [x \in (DOMAIN m) \cup {k} |-> IF x = k THEN v ELSE m[x]]

----------------------------------------------------------------------------
(* Static configuration *)

SITES == <<"PS-EDMONDS", "PS-ALKI", "PS-DOCKTON", "PS-SKAGIT">>
SiteIds == {SITES[i] : i \in 1..Len(SITES)}

keys == <<"temp", "sal", "ph", "do", "turb", "chl", "gene_expr", "methyl",
          "metabo", "lipid_ox">>
ParamKey == {keys[i] : i \in 1..Len(keys)}
KeyIndex(k) == CHOOSE i \in 1..Len(keys) : keys[i] = k

\* DefaultThresholds with a fault: salinity is configured as "over"
DefaultThresholdsSalOver ==
    [temp      |-> [warn |-> 20000, crit |-> 24000,  dir |-> "over"],
     sal       |-> [warn |-> 20000, crit |-> 15000,  dir |-> "over"],
     ph        |-> [warn |-> 7700,  crit |-> 7600,   dir |-> "under"],
     do        |-> [warn |-> 6000,  crit |-> 4000,   dir |-> "under"],
     turb      |-> [warn |-> 50000, crit |-> 150000, dir |-> "over"],
     chl       |-> [warn |-> 15000, crit |-> 40000,  dir |-> "over"],
     gene_expr |-> [warn |-> 40000, crit |-> 70000,  dir |-> "over"],
     methyl    |-> [warn |-> 550,   crit |-> 700,    dir |-> "over"],
     metabo    |-> [warn |-> 50000, crit |-> 75000,  dir |-> "over"],
     lipid_ox  |-> [warn |-> 350,   crit |-> 550,    dir |-> "over"]]

\* the THRESHOLDS table as the module defines it
DefaultThresholds ==
    [temp      |-> [warn |-> 20000, crit |-> 24000,  dir |-> "over"],
     sal       |-> [warn |-> 20000, crit |-> 15000,  dir |-> "under"],
     ph        |-> [warn |-> 7700,  crit |-> 7600,   dir |-> "under"],
     do        |-> [warn |-> 6000,  crit |-> 4000,   dir |-> "under"],
     turb      |-> [warn |-> 50000, crit |-> 150000, dir |-> "over"],
     chl       |-> [warn |-> 15000, crit |-> 40000,  dir |-> "over"],
     gene_expr |-> [warn |-> 40000, crit |-> 70000,  dir |-> "over"],
     methyl    |-> [warn |-> 550,   crit |-> 700,    dir |-> "over"],
     metabo    |-> [warn |-> 50000, crit |-> 75000,  dir |-> "over"],
     lipid_ox  |-> [warn |-> 350,   crit |-> 550,    dir |-> "over"]]

\* the (step, min, max) arguments tick passes to randomWalk
WalkArgs ==
    [temp      |-> [step |-> 300,  min |-> 8000, max |-> 26000],
     sal       |-> [step |-> 300,  min |-> 10000, max |-> 33000],
     ph        |-> [step |-> 50,   min |-> 7300, max |-> 8300],
     do        |-> [step |-> 400,  min |-> 1500, max |-> 12000],
     turb      |-> [step |-> 6000, min |-> 1000, max |-> 300000],
     chl       |-> [step |-> 3000, min |-> 100,  max |-> 120000],
     gene_expr |-> [step |-> 4000, min |-> 0,    max |-> 100000],
     methyl    |-> [step |-> 30,   min |-> 0,    max |-> 1000],
     metabo    |-> [step |-> 5000, min |-> 0,    max |-> 100000],
     lipid_ox  |-> [step |-> 30,   min |-> 0,    max |-> 1000]]

\* generateSeeded draws base + Math.random() * span
SeedArgs ==
    [temp      |-> [base |-> 16000, span |-> 4000],
     sal       |-> [base |-> 28000, span |-> 3000],
     ph        |-> [base |-> 7800,  span |-> 200],
     do        |-> [base |-> 7000,  span |-> 2000],
     turb      |-> [base |-> 10000, span |-> 25000],
     chl       |-> [base |-> 3000,  span |-> 10000],
     gene_expr |-> [base |-> 20000, span |-> 20000],
     methyl    |-> [base |-> 400,   span |-> 100],
     metabo    |-> [base |-> 20000, span |-> 20000],
     lipid_ox  |-> [base |-> 250,   span |-> 100]]

----------------------------------------------------------------------------
(* Reading generator *)

\* the value returned by the n-th Math.random() call (n = 0 the next one)
\* when the generator is at state s, as a numerator over RandDen
Rand(s, n) == ((s + n) % RngPeriod) % RandDen

\* the generator's state after n calls
RngAfter(s, n) == (s + n) % RngPeriod

\* randomWalk with a fault: the step without the clamp
randomWalkUnclamped(prev, step, min, max, u) ==
    prev + ((2 * u - RandDen) * step) \div (2 * RandDen)

\* prev + (Math.random() - 0.5) * step, clamped to [min, max]; u is the draw
randomWalk(prev, step, min, max, u) ==
    LET next == prev + ((2 * u - RandDen) * step) \div (2 * RandDen)
    IN  Max2(min, Min2(max, next))

\* the seed value of parameter k for the draw u
SeedValue(k, u) == SeedArgs[k].base + (u * SeedArgs[k].span) \div RandDen

\* generateSeeded(start), the generator at state s: ten draws, in key order
generateSeeded(start, s) ==
    [f \in ParamKey \cup {"ts"} |->
        IF f = "ts" THEN start ELSE SeedValue(f, Rand(s, KeyIndex(f) - 1))]

\* tick with a fault: the new reading keeps the previous timestamp
tickKeepsTs(prev, ts, s) ==
    [f \in ParamKey \cup {"ts"} |->
        IF f = "ts" THEN prev.ts
        ELSE randomWalk(prev[f], WalkArgs[f].step, WalkArgs[f].min,
                        WalkArgs[f].max, Rand(s, KeyIndex(f) - 1))]

\* tick(prev, ts), the generator at state s: ten draws, in key order
tick(prev, ts, s) ==
    [f \in ParamKey \cup {"ts"} |->
        IF f = "ts" THEN ts
        ELSE randomWalk(prev[f], WalkArgs[f].step, WalkArgs[f].min,
                        WalkArgs[f].max, Rand(s, KeyIndex(f) - 1))]

----------------------------------------------------------------------------
(* Alert classifier *)

\* classifyAlert with a fault: the levels themselves are not included
classifyAlertStrict(T, key, value) ==
    IF T[key].dir = "over"
    THEN IF value > T[key].crit THEN "crit"
         ELSE IF value > T[key].warn THEN "warn"
         ELSE "ok"
    ELSE IF value < T[key].crit THEN "crit"
         ELSE IF value < T[key].warn THEN "warn"
         ELSE "ok"

\* classifyAlert with a fault: the warning level is tested first
classifyAlertWarnFirst(T, key, value) ==
    IF T[key].dir = "over"
    THEN IF value >= T[key].warn THEN "warn"
         ELSE IF value >= T[key].crit THEN "crit"
         ELSE "ok"
    ELSE IF value <= T[key].warn THEN "warn"
         ELSE IF value <= T[key].crit THEN "crit"
         ELSE "ok"

\* classifyAlert(key, value), reading the table T (the global THRESHOLDS)
classifyAlert(T, key, value) ==
    IF T[key].dir = "over"
    THEN IF value >= T[key].crit THEN "crit"
         ELSE IF value >= T[key].warn THEN "warn"
         ELSE "ok"
    ELSE IF value <= T[key].crit THEN "crit"
         ELSE IF value <= T[key].warn THEN "warn"
         ELSE "ok"

\* AlertCompare with a fault: the comparator looks at its second argument
AlertCompareSecond(a, b) == IF b.level = "crit" THEN -1 ELSE 1

\* the comparator handed to sort: (a, b) => (a.level === "crit" ? -1 : 1)
AlertCompare(a, b) == IF a.level = "crit" THEN -1 ELSE 1

(* Array.prototype.sort.  AlertCompare is not a consistent comparator (it   *)
(* answers -1 both ways for two crit records, 1 both ways for two warn      *)
(* records), so ECMAScript leaves the resulting order to the engine.  The   *)
(* model computes the order of the three sorts browsers run on a short      *)
(* array, and a call to sort returns any one of them.                       *)

Reverse(a) == [i \in 1..Len(a) |-> a[Len(a) + 1 - i]]

\* the element at index from moved to index to (to <= from), those between
\* shifted right by one
MoveTo(a, from, to) ==
    SubSeq(a, 1, to - 1) \o <<a[from]>> \o SubSeq(a, to, from - 1)
        \o SubSeq(a, from + 1, Len(a))

\* V8 (TimSort, array-sort.tq), CountAndMakeRun: last index of the run that
\* starts at index 1, idx the next index to examine
RECURSIVE RunEnd(_, _, _)
RunEnd(a, descending, idx) ==
    IF idx > Len(a) THEN idx - 1
    ELSE LET order == AlertCompare(a[idx], a[idx - 1])
         IN  IF (descending /\ order >= 0) \/ (~descending /\ order < 0)
             THEN idx - 1
             ELSE RunEnd(a, descending, idx + 1)

\* V8, BinaryInsertionSort: the index at which pivot is inserted
RECURSIVE BinarySearch(_, _, _, _)
BinarySearch(a, pivot, left, right) ==
    IF left >= right THEN left
    ELSE LET mid == left + (right - left) \div 2
         IN  IF AlertCompare(pivot, a[mid]) < 0
             THEN BinarySearch(a, pivot, left, mid)
             ELSE BinarySearch(a, pivot, mid + 1, right)

RECURSIVE BinaryInsertionSort(_, _)
BinaryInsertionSort(a, start) ==
    IF start > Len(a) THEN a
    ELSE BinaryInsertionSort(
             MoveTo(a, start, BinarySearch(a, a[start], 1, start)), start + 1)

\* V8: an array shorter than 64 is one run, extended by binary insertion
TimSort(a) ==
    IF Len(a) < 2 THEN a
    ELSE LET descending == AlertCompare(a[2], a[1]) < 0
             runLength == RunEnd(a, descending, 3)
             run == IF descending
                    THEN Reverse(SubSeq(a, 1, runLength))
                             \o SubSeq(a, runLength + 1, Len(a))
                    ELSE a
         IN  BinaryInsertionSort(run, runLength + 1)

\* SpiderMonkey (short arrays), InsertionSort: item moves left past every
\* element swap with comparefn(swap, item) > 0
RECURSIVE InsertionIndex(_, _, _)
InsertionIndex(a, item, j) ==
    IF j < 1 THEN 1
    ELSE IF AlertCompare(a[j], item) <= 0 THEN j + 1
    ELSE InsertionIndex(a, item, j - 1)

RECURSIVE InsertionSortFrom(_, _)
InsertionSortFrom(a, i) ==
    IF i > Len(a) THEN a
    ELSE InsertionSortFrom(MoveTo(a, i, InsertionIndex(a, a[i], i - 1)), i + 1)

InsertionSort(a) == InsertionSortFrom(a, 2)

\* JavaScriptCore, merge: takes from the right part while
\* comparator(src[right], src[left]) < 0
RECURSIVE Merge(_, _)
Merge(L, R) ==
    IF R # <<>> /\ (L = <<>> \/ AlertCompare(Head(R), Head(L)) < 0)
    THEN <<Head(R)>> \o Merge(L, Tail(R))
    ELSE IF L = <<>> THEN <<>>
    ELSE <<Head(L)>> \o Merge(Tail(L), R)

RECURSIVE MergePass(_, _, _)
MergePass(a, width, srcIndex) ==
    IF srcIndex > Len(a) THEN <<>>
    ELSE LET leftEnd == Min2(srcIndex + width - 1, Len(a))
             rightEnd == Min2(leftEnd + width, Len(a))
         IN  Merge(SubSeq(a, srcIndex, leftEnd), SubSeq(a, leftEnd + 1, rightEnd))
                 \o MergePass(a, width, srcIndex + 2 * width)

RECURSIVE MergeSortFrom(_, _)
MergeSortFrom(a, width) ==
    IF width >= Len(a) THEN a
    ELSE MergeSortFrom(MergePass(a, width, 1), 2 * width)

MergeSort(a) == MergeSortFrom(a, 1)

\* the orders a.sort(AlertCompare) can return
SortOutcomes(a) == {TimSort(a), InsertionSort(a), MergeSort(a)}

\* keys.map(k => ({key, level: classifyAlert(k, latest[k]), value: latest[k]}))
ClassifyAll(latest, T) ==
    [i \in 1..Len(keys) |->
        [key |-> keys[i], level |-> classifyAlert(T, keys[i], latest[keys[i]]),
         value |-> latest[keys[i]]]]

IsAlert(a) == a.level # "ok"

\* .filter(a => a.level !== "ok")
FilterAlerts(mapped) == SelectSeq(mapped, IsAlert)

\* the alerts useMemo body for a defined latest: the lists it can return
activeAlerts(latest, T) == SortOutcomes(FilterAlerts(ClassifyAll(latest, T)))

----------------------------------------------------------------------------
(* Series buffer *)

\* const data = series[activeSite] ?? []
data(ser, site) == IF site \in DOMAIN ser THEN ser[site] ELSE <<>>

\* the alerts useMemo: [] when latest is undefined
ComputeAlerts(ser, site, T) ==
    LET d == data(ser, site)
    IN  IF Len(d) = 0 THEN {<<>>} ELSE activeAlerts(d[Len(d)], T)

\* SeedRows with a fault: the loop stops before t reaches now
RECURSIVE SeedRowsExclusive(_, _, _, _, _)
SeedRowsExclusive(r, t, end, rows, s) ==
    IF t < end
    THEN LET r2 == tick(r, t, s)
         IN  SeedRowsExclusive(r2, t + STEP_MS, end, Append(rows, r2),
                               RngAfter(s, Len(keys)))
    ELSE [rows |-> rows, rng |-> s]

\* the seeding loop of one site: for (t = ...; t <= now; t += 300_000)
RECURSIVE SeedRows(_, _, _, _, _)
SeedRows(r, t, end, rows, s) ==
    IF t <= end
    THEN LET r2 == tick(r, t, s)
         IN  SeedRows(r2, t + STEP_MS, end, Append(rows, r2),
                      RngAfter(s, Len(keys)))
    ELSE [rows |-> rows, rng |-> s]

\* the body of the seeding loop for one site
SeedSite(clock, s) ==
    SeedRows(generateSeeded(clock - HISTORY_MS, s), clock - HISTORY_MS, clock,
             <<>>, RngAfter(s, Len(keys)))

\* the seeding effect: for (const site of SITES) seed[site.id] = rows
RECURSIVE SeedAll(_, _, _, _)
SeedAll(seed, i, clock, s) ==
    IF i > Len(SITES) THEN [map |-> seed, rng |-> s]
    ELSE LET one == SeedSite(clock, s)
         IN  SeedAll(Put(seed, SITES[i], one.rows), i + 1, clock, one.rng)

\* AdvanceSite with a fault: every site is advanced from the first site's series
AdvanceSiteFromFirst(copy, site, clock, s) ==
    LET arr == data(copy, SITES[1])
        seeded == Len(arr) = 0
        last == IF seeded THEN generateSeeded(clock, s) ELSE arr[Len(arr)]
        s1 == IF seeded THEN RngAfter(s, Len(keys)) ELSE s
        next == tick(last, clock, s1)
    IN  [map |-> Put(copy, site, Append(SliceLast(arr, MAX_WINDOW), next)),
         rng |-> RngAfter(s1, Len(keys))]

\* the body of the updater's loop for one site, copy the map built so far
AdvanceSite(copy, site, clock, s) ==
    LET arr == data(copy, site)
        seeded == Len(arr) = 0
        last == IF seeded THEN generateSeeded(clock, s) ELSE arr[Len(arr)]
        s1 == IF seeded THEN RngAfter(s, Len(keys)) ELSE s
        next == tick(last, clock, s1)
    IN  [map |-> Put(copy, site, Append(SliceLast(arr, MAX_WINDOW), next)),
         rng |-> RngAfter(s1, Len(keys))]

\* the setSeries updater: for (const site of SITES) { ... } return copy
RECURSIVE AdvanceAll(_, _, _, _)
AdvanceAll(copy, i, clock, s) ==
    IF i > Len(SITES) THEN [map |-> copy, rng |-> s]
    ELSE LET one == AdvanceSite(copy, SITES[i], clock, s)
         IN  AdvanceAll(one.map, i + 1, clock, one.rng)

----------------------------------------------------------------------------
(* Timers and the streaming effect *)

\* window.clearInterval(id): a no-op for an id that is not active
clearInterval(tm, id) == [x \in (DOMAIN tm) \ {id} |-> tm[x]]

\* the cleanup the streaming effect returns when it has started a timer:
\* if (timerRef.current) window.clearInterval(timerRef.current)
EffectCleanup(tm, ref) == IF ref # 0 THEN clearInterval(tm, ref) ELSE tm

\* the streaming effect's body with streaming false: clear and null the ref
EffectStop(tm, ref) ==
    [timers |-> IF ref # 0 THEN clearInterval(tm, ref) ELSE tm, ref |-> 0]

\* EffectStart with a fault: the id setInterval returns is not kept
EffectStartDropsId(tm, id, clock) ==
    [timers |-> Put(tm, id, clock + INTERVAL_MS), ref |-> 0]

\* the streaming effect's body with streaming true: timerRef.current =
\* window.setInterval(cb, 5000); id is the id setInterval returns
EffectStart(tm, id, clock) ==
    [timers |-> Put(tm, id, clock + INTERVAL_MS), ref |-> id]

\* RunStreamingEffect with a fault: pausing nulls the ref and clears no timer
RunStreamingEffectNoClear(tm, ref, old, new, id, clock) ==
    IF new THEN EffectStart(tm, id, clock) ELSE [timers |-> tm, ref |-> 0]

\* a change of the streaming flag from old to new: React runs the previous
\* run's cleanup (there is one when that run started a timer), then the body
RunStreamingEffect(tm, ref, old, new, id, clock) ==
    LET cleaned == IF old THEN EffectCleanup(tm, ref) ELSE tm
    IN  IF new THEN EffectStart(cleaned, id, clock) ELSE EffectStop(cleaned, ref)

----------------------------------------------------------------------------
(* The application *)

NoProbe == <<>>

Init ==
    /\ now = StartTime
    /\ rng \in 0..(RandDen - 1)
    /\ mounted = FALSE
    /\ series = [x \in {} |-> <<>>]
    /\ activeSite = SITES[1]
    /\ streaming = TRUE
    /\ timerRef = 0
    /\ timers = [x \in {} |-> 0]
    /\ nextId = 1
    /\ THRESHOLDS = DefaultThresholds
    /\ alerts = <<>>
    /\ probe = NoProbe
    /\ out = NoProbe

\* the two mount effects, in order: seed every site, then start streaming
Mount ==
    /\ ~mounted
    /\ mounted' = TRUE
    /\ LET seeded == SeedAll([x \in {} |-> <<>>], 1, now, rng)
           eff == EffectStart(timers, nextId, now)
       IN  /\ series' = seeded.map
           /\ rng' = seeded.rng
           /\ timers' = eff.timers
           /\ timerRef' = eff.ref
           /\ nextId' = nextId + 1
           /\ alerts' \in ComputeAlerts(seeded.map, activeSite, THRESHOLDS)
    /\ UNCHANGED <<now, activeSite, streaming, THRESHOLDS, probe, out>>

\* time passes, up to the explored run time; a timer that is due runs
\* before the clock moves on
Wait(horizon) ==
    /\ mounted
    /\ now + Quantum <= StartTime + horizon
    /\ \A id \in DOMAIN timers : now < timers[id]
    /\ now' = now + Quantum
    /\ UNCHANGED <<rng, mounted, series, activeSite, streaming, timerRef,
                   timers, nextId, THRESHOLDS, alerts, probe, out>>

\* the interval callback of timer id runs: setSeries(prev => ...); the next
\* run is due one interval later; latest is a new object, so the alerts
\* memo is recomputed
Advance(id) ==
    /\ id \in DOMAIN timers
    /\ now >= timers[id]
    /\ LET adv == AdvanceAll(series, 1, now, rng)
       IN  /\ series' = adv.map
           /\ rng' = adv.rng
           /\ alerts' \in ComputeAlerts(adv.map, activeSite, THRESHOLDS)
    /\ timers' = [timers EXCEPT ![id] = now + INTERVAL_MS]
    /\ UNCHANGED <<now, mounted, activeSite, streaming, timerRef, nextId,
                   THRESHOLDS, probe, out>>

AdvanceTick == \E id \in DOMAIN timers : Advance(id)

\* setStreaming(v) and the re-render it causes; setting the current value
\* again renders nothing
SetStreaming(v) ==
    /\ mounted
    /\ v # streaming
    /\ v => nextId <= MaxTimers
    /\ streaming' = v
    /\ LET eff == RunStreamingEffect(timers, timerRef, streaming, v, nextId, now)
       IN  /\ timers' = eff.timers
           /\ timerRef' = eff.ref
    /\ nextId' = IF v THEN nextId + 1 ELSE nextId
    /\ UNCHANGED <<now, rng, mounted, series, activeSite, THRESHOLDS, alerts,
                   probe, out>>

\* the header button: onClick={() => setStreaming(s => !s)}
ToggleButton == SetStreaming(~streaming)

\* the Live switch: onClick={() => onCheckedChange(!checked)}, checked the
\* streaming flag as rendered
ToggleSwitch == \E checked \in {streaming} : SetStreaming(~checked)

\* a click in the site list: setActiveSite(s.id); latest changes with the
\* site, and with it the alerts memo
SelectSite ==
    \E s \in SiteIds :
        /\ mounted
        /\ s # activeSite
        /\ activeSite' = s
        /\ alerts' \in ComputeAlerts(series, s, THRESHOLDS)
        /\ UNCHANGED <<now, rng, mounted, series, streaming, timerRef, timers,
                       nextId, THRESHOLDS, probe, out>>

\* the parameters whose inputs the model edits
EditKeys == {keys[i] : i \in 1..Min2(MaxEditKeys, Len(keys))}

\* the value typed into an input of parameter k: the end of its range on the
\* harmless side, so that every reading reaches the level edited
EditValue(k) ==
    IF DefaultThresholds[k].dir = "over" THEN WalkArgs[k].min ELSE WalkArgs[k].max

\* onBlur of a Warn input: THRESHOLDS[k].warn = Number(value); nothing renders
EditWarn ==
    \E k \in EditKeys :
        /\ mounted
        /\ THRESHOLDS[k].warn # EditValue(k)
        /\ THRESHOLDS' = [THRESHOLDS EXCEPT ![k].warn = EditValue(k)]
        /\ UNCHANGED <<now, rng, mounted, series, activeSite, streaming,
                       timerRef, timers, nextId, alerts, probe, out>>

\* onBlur of a Critical input: THRESHOLDS[k].crit = Number(value)
EditCrit ==
    \E k \in EditKeys :
        /\ mounted
        /\ THRESHOLDS[k].crit # EditValue(k)
        /\ THRESHOLDS' = [THRESHOLDS EXCEPT ![k].crit = EditValue(k)]
        /\ UNCHANGED <<now, rng, mounted, series, activeSite, streaming,
                       timerRef, timers, nextId, alerts, probe, out>>

Next ==
    \/ Mount
    \/ Wait(MaxElapsed)
    \/ AdvanceTick
    \/ ToggleButton
    \/ ToggleSwitch
    \/ SelectSite
    \/ EditWarn
    \/ EditCrit

Spec == Init /\ [][Next]_vars

----------------------------------------------------------------------------
(* The unattended run: the page is left open until every window is full;   *)
(* only then is streaming paused and resumed.                              *)

WindowFull == \A site \in SiteIds : Len(data(series, site)) >= MAX_WINDOW

LongNext ==
    \/ Mount
    \/ Wait(LongElapsed)
    \/ AdvanceTick
    \/ (WindowFull /\ ToggleButton)
    \/ (WindowFull /\ ToggleSwitch)

LongSpec == Init /\ [][LongNext]_vars

----------------------------------------------------------------------------
(* Function specifications: Init draws the arguments into probe, the       *)
(* action applies the function; the application itself stays unmounted.    *)

Idle ==
    UNCHANGED <<now, rng, mounted, series, activeSite, streaming, timerRef,
                timers, nextId, THRESHOLDS, alerts>>

AppInit ==
    /\ now = StartTime
    /\ rng = 0
    /\ mounted = FALSE
    /\ series = [x \in {} |-> <<>>]
    /\ activeSite = SITES[1]
    /\ streaming = TRUE
    /\ timerRef = 0
    /\ timers = [x \in {} |-> 0]
    /\ nextId = 1
    /\ alerts = <<>>

(* randomWalk: one parameter's value, seeded by generateSeeded and then    *)
(* stepped by tick any number of times (tick steps each parameter from its *)
(* own previous value and its own draw)                                    *)

WalkInit ==
    /\ AppInit
    /\ THRESHOLDS = DefaultThresholds
    /\ \E k \in ParamKey : \E s \in 0..(RngPeriod - 1) :
           probe = [key |-> k, value |-> generateSeeded(StartTime, s)[k]]
    /\ out = NoProbe

WalkStep ==
    /\ \E s \in 0..(RngPeriod - 1) :
           LET prev == [f \in ParamKey \cup {"ts"} |-> probe.value]
           IN  probe' = [probe EXCEPT !.value = tick(prev, now, s)[probe.key]]
    /\ out' = out
    /\ Idle

WalkSpec == WalkInit /\ [][WalkStep]_vars

(* classifyAlert: a parameter, a value and a threshold entry *)

\* the levels and values tried for parameter k
TestValues(k) ==
    {WalkArgs[k].min, WalkArgs[k].max, DefaultThresholds[k].warn,
     DefaultThresholds[k].crit,
     (DefaultThresholds[k].warn + DefaultThresholds[k].crit) \div 2}

ClassifyInit ==
    /\ AppInit
    /\ \E k \in ParamKey : \E v, w, c \in TestValues(k) :
           /\ probe = [key |-> k, value |-> v]
           /\ THRESHOLDS = [DefaultThresholds EXCEPT ![k].warn = w, ![k].crit = c]
    /\ out = NoProbe

Classify ==
    /\ out = NoProbe
    /\ out' = [level |-> classifyAlert(THRESHOLDS, probe.key, probe.value)]
    /\ probe' = probe
    /\ Idle

ClassifySpec == ClassifyInit /\ [][Classify]_vars

(* the alerts useMemo: a latest reading of every combination of levels *)

\* for parameter k, a value of each level under the default thresholds
LevelValues(k) ==
    LET t == DefaultThresholds[k]
    IN  IF t.dir = "over" THEN {t.warn - 1, t.warn, t.crit}
        ELSE {t.warn + 1, t.warn, t.crit}

AlertsInit ==
    /\ AppInit
    /\ THRESHOLDS = DefaultThresholds
    /\ probe \in
           [ts : {StartTime}, temp : LevelValues("temp"), sal : LevelValues("sal"),
            ph : LevelValues("ph"), do : LevelValues("do"),
            turb : LevelValues("turb"), chl : LevelValues("chl"),
            gene_expr : LevelValues("gene_expr"), methyl : LevelValues("methyl"),
            metabo : LevelValues("metabo"), lipid_ox : LevelValues("lipid_ox")]
    /\ out = NoProbe

ShowAlerts ==
    /\ out = NoProbe
    /\ out' \in {[list |-> l] : l \in activeAlerts(probe, THRESHOLDS)}
    /\ probe' = probe
    /\ Idle

AlertsSpec == AlertsInit /\ [][ShowAlerts]_vars

----------------------------------------------------------------------------
(* The series state as objects: the mapping and every series sequence are  *)
(* objects of a store, named by references. The store is the sequence of   *)
(* the objects allocated so far and a reference is an index into it; a     *)
(* mapping object takes a site id to the reference of that site's series.  *)

MaxStoreTicks == 3
WarmTicks == 204

\* a new object; its reference is Len(h) + 1
Alloc(h, obj) == Append(h, obj)

\* what a holder of the mapping m reads through it: every site's series
View(h, m) == [site \in DOMAIN h[m] |-> h[h[m][site]]]

\* the store the seeding effect leaves: the rows of each site, then seed
StoreOf(ser) ==
    [i \in 1..(Len(SITES) + 1) |->
        IF i <= Len(SITES) THEN data(ser, SITES[i])
        ELSE [site \in SiteIds |-> CHOOSE j \in 1..Len(SITES) : SITES[j] = site]]

\* AdvanceSiteRef with a fault: arr.push(next) on the series object in place
AdvanceSiteRefInPlace(h, copy, site, clock, s) ==
    LET m == h[copy]
        has == site \in DOMAIN m
        arr == IF has THEN h[m[site]] ELSE <<>>
        seeded == Len(arr) = 0
        last == IF seeded THEN generateSeeded(clock, s) ELSE arr[Len(arr)]
        s1 == IF seeded THEN RngAfter(s, Len(keys)) ELSE s
        next == tick(last, clock, s1)
    IN  [heap |-> IF has THEN [h EXCEPT ![m[site]] = Append(arr, next)]
                  ELSE [Alloc(h, <<next>>) EXCEPT ![copy] = Put(m, site, Len(h) + 1)],
         rng |-> RngAfter(s1, Len(keys))]

\* the body of the updater's loop for one site, copy the reference of the
\* mapping being built: arr.slice(-240) and the array literal are new
\* objects, and only copy is assigned to
AdvanceSiteRef(h, copy, site, clock, s) ==
    LET m == h[copy]
        arr == IF site \in DOMAIN m THEN h[m[site]] ELSE <<>>
        seeded == Len(arr) = 0
        last == IF seeded THEN generateSeeded(clock, s) ELSE arr[Len(arr)]
        s1 == IF seeded THEN RngAfter(s, Len(keys)) ELSE s
        next == tick(last, clock, s1)
        fresh == Append(SliceLast(arr, MAX_WINDOW), next)
    IN  [heap |-> [Alloc(h, fresh) EXCEPT ![copy] = Put(m, site, Len(h) + 1)],
         rng |-> RngAfter(s1, Len(keys))]

RECURSIVE AdvanceLoopRef(_, _, _, _, _)
AdvanceLoopRef(h, copy, i, clock, s) ==
    IF i > Len(SITES) THEN [heap |-> h, ref |-> copy, rng |-> s]
    ELSE LET one == AdvanceSiteRef(h, copy, SITES[i], clock, s)
         IN  AdvanceLoopRef(one.heap, copy, i + 1, clock, one.rng)

\* the setSeries updater on the mapping prev: const copy = { ...prev } is a
\* new mapping with prev's entries; the updater returns copy
AdvanceAllRef(h, prev, clock, s) ==
    AdvanceLoopRef(Alloc(h, h[prev]), Len(h) + 1, 1, clock, s)

\* the page just mounted: the state variable series holds the mappings as
\* values; no object is tracked yet (probe.series = 0)
StoreInit ==
    /\ mounted = TRUE
    /\ activeSite = SITES[1]
    /\ streaming = TRUE
    /\ timerRef = 1
    /\ nextId = 2
    /\ THRESHOLDS = DefaultThresholds
    /\ alerts = <<>>
    /\ out = NoProbe
    /\ now = StartTime + INTERVAL_MS
    /\ timers = [x \in {1} |-> now]
    /\ \E s \in 0..(RngPeriod - 1) :
           LET seeded == SeedAll([x \in {} |-> <<>>], 1, StartTime, s)
           IN  /\ series = seeded.map
               /\ rng = seeded.rng
    /\ probe = [heap |-> <<>>, series |-> 0, held |-> 0, ticks |-> 0]

StoreIdle ==
    UNCHANGED <<mounted, activeSite, streaming, timerRef, nextId, THRESHOLDS,
                alerts, out>>

\* a timer period before the objects are tracked: the streaming timer's
\* advance, up to the period after which every window is full
WarmUp ==
    /\ probe.series = 0
    /\ probe.ticks < WarmTicks
    /\ LET adv == AdvanceAll(series, 1, now, rng)
       IN  /\ series' = adv.map
           /\ rng' = adv.rng
    /\ probe' = [probe EXCEPT !.ticks = probe.ticks + 1]
    /\ now' = now + INTERVAL_MS
    /\ timers' = [x \in {1} |-> now']
    /\ StoreIdle

\* the objects are tracked from here: straight after mount, or once every
\* window is full; probe.series is the reference the state variable series
\* holds, probe.held the mapping a reader took from it (0 for none)
Attach ==
    /\ probe.series = 0
    /\ probe.ticks \in {0, WarmTicks}
    /\ probe' = [heap |-> StoreOf(series), series |-> Len(SITES) + 1,
                 held |-> 0, ticks |-> 0]
    /\ UNCHANGED <<now, rng, series, timers>>
    /\ StoreIdle

\* a reader takes the current mapping: a render reads series, and the charts
\* keep the data array they were given
Hold ==
    /\ probe.series # 0
    /\ probe.held # probe.series
    /\ probe' = [probe EXCEPT !.held = probe.series]
    /\ UNCHANGED <<now, rng, series, timers>>
    /\ StoreIdle

\* the timer callback: setSeries(prev => ...) replaces the state by the
\* mapping the updater returns
StoreAdvance ==
    /\ probe.series # 0
    /\ probe.ticks < MaxStoreTicks
    /\ LET adv == AdvanceAllRef(probe.heap, probe.series, now, rng)
       IN  /\ probe' = [probe EXCEPT !.heap = adv.heap, !.series = adv.ref,
                                     !.ticks = probe.ticks + 1]
           /\ rng' = adv.rng
    /\ series' = AdvanceAll(series, 1, now, rng).map
    /\ now' = now + INTERVAL_MS
    /\ timers' = [x \in {1} |-> now']
    /\ StoreIdle

StoreNext == WarmUp \/ Attach \/ Hold \/ StoreAdvance

StoreSpec == StoreInit /\ [][StoreNext]_vars

----------------------------------------------------------------------------
(* Claims *)

Last(arr) == arr[Len(arr)]
Abs(x) == IF x < 0 THEN -x ELSE x

\* C1: after seeding and any number of advance ticks, every site's series
\* has at most 240 entries.
C1_SeriesAtMostWindow ==
    \A site \in DOMAIN series : Len(series[site]) <= MAX_WINDOW

\* C2: every value produced by the seed or by any number of successive
\* steps from it lies in its parameter's closed range [min, max].
C2_ValuesInRange ==
    /\ probe.value >= WalkArgs[probe.key].min
    /\ probe.value <= WalkArgs[probe.key].max

\* C2 witness: a walk has reached the lower end of the temperature range,
\* which lies eight degrees below every seed.
C2_Witness ==
    /\ probe.key = "temp"
    /\ probe.value = WalkArgs["temp"].min

\* C3: classify returns critical when the value is at or beyond the
\* critical level in the entry's direction, else warning when it is at or
\* beyond the warning level, else ok; both levels inclusive, critical first.
C3_ClassifyByDirection ==
    out # NoProbe =>
        LET t == THRESHOLDS[probe.key]
            v == probe.value
            beyond(level) == IF t.dir = "over" THEN v >= level ELSE v <= level
        IN  /\ out.level \in {"ok", "warn", "crit"}
            /\ out.level = "crit" <=> beyond(t.crit)
            /\ out.level = "warn" <=> (~beyond(t.crit) /\ beyond(t.warn))
            /\ out.level = "ok" <=> (~beyond(t.crit) /\ ~beyond(t.warn))

\* C3 witness: a value exactly on the warning level of an under-direction
\* entry, above its critical level, has been classified as warning.
C3_Witness ==
    /\ out # NoProbe
    /\ THRESHOLDS[probe.key].dir = "under"
    /\ probe.value = THRESHOLDS[probe.key].warn
    /\ probe.value > THRESHOLDS[probe.key].crit
    /\ out.level = "warn"

\* C4: the startup seeding gives every site a series of exactly 37 readings
\* with timestamps now-3h, now-3h+5min, ..., now, each reading one step away
\* from its predecessor, the first one step away from a seed.
C4_SeedingShape ==
    [][(~mounted /\ mounted') =>
        \A site \in SiteIds :
            /\ site \in DOMAIN series'
            /\ Len(series'[site]) = 37
            /\ \A i \in 1..37 :
                   series'[site][i].ts = now - 3 * 3600000 + (i - 1) * 300000
            /\ Last(series'[site]).ts = now
            /\ \A i \in 1..36 :
                   series'[site][i].ts < series'[site][i + 1].ts
            /\ \A k \in ParamKey :
                   /\ \A i \in 1..36 :
                          2 * Abs(series'[site][i + 1][k] - series'[site][i][k])
                              <= WalkArgs[k].step + 1
                   /\ 2 * series'[site][1][k]
                          >= 2 * SeedArgs[k].base - WalkArgs[k].step - 1
                   /\ 2 * series'[site][1][k]
                          < 2 * (SeedArgs[k].base + SeedArgs[k].span)
                                + WalkArgs[k].step
      ]_vars

\* C4 witness: the page has just been seeded.
C4_Witness ==
    /\ mounted
    /\ now = StartTime
    /\ \A site \in SiteIds : Len(series[site]) = 37

\* C5: in every reachable state the timestamps within each site's series
\* are strictly increasing from the first entry to the last.
C5_TimestampsIncrease ==
    \A site \in DOMAIN series :
        \A i \in 1..(Len(series[site]) - 1) :
            series[site][i].ts < series[site][i + 1].ts

\* C5 witness: a full window whose oldest seeded reading has been evicted
\* and which holds a gap left by a pause and resume of streaming.
C5_Witness ==
    /\ mounted
    /\ Len(series[SITES[1]]) > MAX_WINDOW
    /\ series[SITES[1]][1].ts > StartTime - HISTORY_MS
    /\ \E i \in 1..(Len(series[SITES[1]]) - 1) :
           /\ series[SITES[1]][i].ts >= StartTime
           /\ series[SITES[1]][i + 1].ts - series[SITES[1]][i].ts
                  >= 2 * INTERVAL_MS

\* C6: the alert list holds exactly one record for each parameter that is
\* not ok, none for an ok parameter, and every critical record comes before
\* every warning record.
C6_AlertsPartitioned ==
    out # NoProbe =>
        LET l == out.list
        IN  /\ \A k \in ParamKey :
                   Cardinality({i \in 1..Len(l) : l[i].key = k})
                       = IF classifyAlert(THRESHOLDS, k, probe[k]) = "ok"
                         THEN 0 ELSE 1
            /\ \A i \in 1..Len(l) :
                   /\ l[i].level = classifyAlert(THRESHOLDS, l[i].key, probe[l[i].key])
                   /\ l[i].value = probe[l[i].key]
            /\ \A i, j \in 1..Len(l) :
                   (l[i].level = "crit" /\ l[j].level = "warn") => i < j

\* C6 witness: a list with critical and warning records in which a warning
\* parameter is enumerated before a critical one, and an ok parameter left out.
C6_Witness ==
    /\ out # NoProbe
    /\ classifyAlert(THRESHOLDS, "temp", probe["temp"]) = "warn"
    /\ classifyAlert(THRESHOLDS, "sal", probe["sal"]) = "crit"
    /\ classifyAlert(THRESHOLDS, "ph", probe["ph"]) = "ok"
    /\ classifyAlert(THRESHOLDS, "lipid_ox", probe["lipid_ox"]) = "crit"
    /\ Len(out.list) >= 5

\* C7: the alert list shown for the active site is always the one computed
\* from that site's latest reading and the thresholds table as it stands.
C7_AlertsFollowThresholds ==
    mounted => alerts \in ComputeAlerts(series, activeSite, THRESHOLDS)

\* C8: in an advance tick the new series of every site is its own previous
\* series cut to the window, followed by one step from its own last reading;
\* nothing of it comes from another site's series.
C8_PerSiteIndependence ==
    [][(mounted /\ series' # series) =>
        \A b \in 1..Len(SITES) :
            LET old == series[SITES[b]]
                new == series'[SITES[b]]
            IN  /\ Len(new) = Min2(Len(old), MAX_WINDOW) + 1
                /\ SubSeq(new, 1, Len(new) - 1) = SliceLast(old, MAX_WINDOW)
                /\ Last(new) =
                       tick(Last(old), now, RngAfter(rng, (b - 1) * Len(keys)))
      ]_vars

\* C8 witness: an advance tick has run on sites whose series differ.
C8_Witness ==
    /\ mounted
    /\ Len(series[SITES[2]]) = 38
    /\ \A a, b \in SiteIds : a # b => Last(series[a]) # Last(series[b])

\* C9: while the streaming flag is false no advance tick occurs: no series
\* changes and no interval timer is active, whichever control paused it.
C9_PausedMeansFrozen ==
    [][/\ ~streaming => series' = series
       /\ ~streaming' => DOMAIN timers' = {}
      ]_vars

\* C9 witness: streaming has been paused, resumed and paused again, and
\* the clock has passed the time the first timer was due.
C9_Witness ==
    /\ ~streaming
    /\ nextId > 2
    /\ now >= StartTime + INTERVAL_MS

\* C10: once a series has reached the maximum window, every advance tick
\* removes exactly the oldest entry and appends one, so the length stays
\* the same and the retained entries keep their order.
C10_EvictOneAtCap ==
    [][\A site \in DOMAIN series :
           (Len(series[site]) >= MAX_WINDOW /\ series'[site] # series[site]) =>
               /\ Len(series'[site]) = Len(series[site])
               /\ SubSeq(series'[site], 1, Len(series'[site]) - 1)
                      = Tail(series[site])
      ]_vars

\* C11: within each severity group of the alert list the records appear in
\* the enumeration order of the parameters.
C11_GroupsInKeyOrder ==
    out # NoProbe =>
        LET l == out.list
        IN  \A i, j \in 1..Len(l) :
                (i < j /\ l[i].level = l[j].level)
                    => KeyIndex(l[i].key) < KeyIndex(l[j].key)

\* C12: an advance is copy-on-write: the mapping it installs and every
\* series in it are new objects holding the advanced series, no object that
\* existed before the tick is changed, and a reader holding the mapping from
\* before the tick still reads every site's series as it was.
C12_CopyOnWrite ==
    [][(probe.series # 0 /\ probe'.series # probe.series) =>
        /\ probe'.series \notin 1..Len(probe.heap)
        /\ \A site \in SiteIds :
               probe'.heap[probe'.series][site] \notin 1..Len(probe.heap)
        /\ View(probe'.heap, probe'.series) = series'
        /\ \A r \in 1..Len(probe.heap) : probe'.heap[r] = probe.heap[r]
        /\ View(probe'.heap, probe.series) = series
        /\ probe.held # 0 =>
               View(probe'.heap, probe.held) = View(probe.heap, probe.held)]_vars

\* a reader still holds a mapping of full windows that a later tick replaced
C12_Witness ==
    /\ probe.series # 0
    /\ probe.held # 0
    /\ probe.held # probe.series
    /\ \A site \in SiteIds :
           /\ Len(View(probe.heap, probe.held)[site]) >= MAX_WINDOW
           /\ Last(View(probe.heap, probe.series)[site]).ts
                  > Last(View(probe.heap, probe.held)[site]).ts

\* the documented ordering of one threshold entry
Ordered(t) ==
    /\ t.dir = "over" => t.crit >= t.warn
    /\ t.dir = "under" => t.crit <= t.warn

\* C13: in every reachable state every entry of the thresholds table has its
\* critical level at or beyond its warning level in the entry's direction,
\* runtime edits included.
C13_ThresholdsOrdered == \A k \in ParamKey : Ordered(THRESHOLDS[k])

\* C13 as amended: no entry's direction ever changes, and every entry whose
\* warning and critical levels are still the configured ones has them in the
\* documented order.
C13_OrderedUntilEdited ==
    \A k \in ParamKey :
        /\ THRESHOLDS[k].dir = DefaultThresholds[k].dir
        /\ (/\ THRESHOLDS[k].warn = DefaultThresholds[k].warn
            /\ THRESHOLDS[k].crit = DefaultThresholds[k].crit)
               => Ordered(THRESHOLDS[k])

\* an edit has left one entry out of order and the others as configured
C13_Witness ==
    /\ mounted
    /\ \E k \in ParamKey :
           /\ ~Ordered(THRESHOLDS[k])
           /\ \A j \in ParamKey \ {k} : THRESHOLDS[j] = DefaultThresholds[j]

\* C14: once mounted, whatever the sequence of toggles of the button and the
\* switch, at most one interval timer is active, one is active exactly when
\* the streaming flag is true and it is the one timerRef names; re-enabling
\* streaming starts exactly one timer, a new one; and an advance appends one
\* reading to every site, a full timer period or more after the site's
\* previous reading.
C14_OneTimerIffStreaming ==
    [][/\ mounted' =>
            /\ Cardinality(DOMAIN timers') <= 1
            /\ streaming' <=> DOMAIN timers' # {}
            /\ streaming' => DOMAIN timers' = {timerRef'}
       /\ (mounted /\ ~streaming /\ streaming') =>
            /\ Cardinality(DOMAIN timers') = 1
            /\ \A id \in DOMAIN timers' :
                   id >= nextId /\ timers'[id] = now' + INTERVAL_MS
       /\ (mounted /\ series' # series) =>
            \A site \in SiteIds :
                /\ Len(series'[site]) <= Len(series[site]) + 1
                /\ Last(series'[site]).ts >= Last(series[site]).ts + INTERVAL_MS
      ]_vars

\* streaming was paused and re-enabled, and the one timer active is the new
\* one, which has advanced every site
C14_Witness ==
    /\ mounted
    /\ streaming
    /\ timerRef = 2
    /\ DOMAIN timers = {2}
    /\ \A site \in SiteIds :
           Last(series[site]).ts = StartTime + Quantum + INTERVAL_MS

\* severity as a number: ok < warning < critical
Rank(level) == IF level = "crit" THEN 2 ELSE IF level = "warn" THEN 1 ELSE 0

\* C15: for any threshold entry, its levels in the documented order or not,
\* classifyAlert is monotone in the value: with over a higher value never has
\* a lower severity, with under a lower value never has a lower severity.
C15_ClassifyMonotone ==
    out # NoProbe =>
        LET k == probe.key
            worse(v) == IF THRESHOLDS[k].dir = "over" THEN v >= probe.value
                        ELSE v <= probe.value
            better(v) == IF THRESHOLDS[k].dir = "over" THEN v <= probe.value
                         ELSE v >= probe.value
        IN  \A v \in TestValues(k) :
                LET level == classifyAlert(THRESHOLDS, k, v)
                IN  /\ worse(v) => Rank(level) >= Rank(out.level)
                    /\ better(v) => Rank(level) <= Rank(out.level)

\* an entry whose critical level is on the mild side of its warning level,
\* and a value between the two, classified critical
C15_Witness ==
    /\ out # NoProbe
    /\ ~Ordered(THRESHOLDS[probe.key])
    /\ probe.value # THRESHOLDS[probe.key].warn
    /\ probe.value # THRESHOLDS[probe.key].crit
    /\ Min2(THRESHOLDS[probe.key].warn, THRESHOLDS[probe.key].crit) < probe.value
    /\ probe.value < Max2(THRESHOLDS[probe.key].warn, THRESHOLDS[probe.key].crit)
    /\ out.level = "crit"

====
